---- MODULE Spec2Model ----
(***************************************************************************)
(* Model of photos.py: the `organize` command (organizeInPlace).           *)
(*                                                                         *)
(* A path is the sequence of its components below cameraRollDirectory;     *)
(* the camera roll itself is the empty sequence.  The directory argument   *)
(* is taken in normal form (os.path.normpath(d) = d) and its own name      *)
(* contains no date, so `substring in root` (line 62) is decided by the    *)
(* components below it.  A file keeps its identity (`origin`, the path it  *)
(* had in the initial tree) and its EXIF "Image DateTime" value (`meta`)   *)
(* when it is renamed.                                                     *)
(***************************************************************************)
EXTENDS Integers, Sequences, FiniteSets, TLC

VARIABLES
    fs,                  \* the files on disk: path -> [origin, meta]
    dirs,                \* the directories on disk below the camera roll
    dryRun,              \* the -d flag
    run,                 \* number of the current invocation of organize
    pc,                  \* position of the invocation
    stack,               \* os.walk: directories still to be yielded
    existingDirectories, \* line 50
    unsortedRaw,         \* line 51, in insertion order: <<[key, files]>>
    sidecars,            \* line 52: stem -> path
    unsortedJpg,         \* line 53
    ki, fi,              \* position of the placement loops (key, file)
    log,                 \* the lines the logger has emitted
    syscalls,            \* the file-system calls of the placement passes, in
                         \* order: makedirs, rename, and each exists that
                         \* found a destination occupied
    outcome,             \* "none" while running or returned, else the exception
                         \* that ended the run, with the line that raised it
    exitMsg,             \* the path named by the sys.exit message, if any
    visited,             \* files the scan loop (line 66) has iterated over
    fs0, dirs0           \* the tree at the start of this invocation

vars == <<fs, dirs, dryRun, run, pc, stack, existingDirectories, unsortedRaw,
          sidecars, unsortedJpg, ki, fi, log, syscalls, outcome, exitMsg,
          visited, fs0, dirs0>>

----------------------------------------------------------------------------
(* Bounds of the model. *)

MaxFiles == 3
MaxRuns == 2

----------------------------------------------------------------------------
(* Names and the string functions the code applies to them. *)

K1 == "01-01-2020"
K2 == "01-02-2020"
XK1 == "01-01-2020-export"
JpgDir == "jpg"

JPG_NAME == {".jpg", ".jpeg"}
RAW_NAME == {".cr2", ".dng"}
SIDECAR_NAME == {".xmp"}

\* os.path.splitext on the file names of the model
Splitext(name) ==
    CASE name = "A.CR2"     -> [stem |-> "A", ext |-> ".CR2"]
      [] name = "A.jpg"     -> [stem |-> "A", ext |-> ".jpg"]
      [] name = "A.CR2.xmp" -> [stem |-> "A.CR2", ext |-> ".xmp"]
      [] name = "A.xmp"     -> [stem |-> "A", ext |-> ".xmp"]
      [] name = "A.txt"     -> [stem |-> "A", ext |-> ".txt"]
      [] OTHER              -> [stem |-> name, ext |-> ""]

\* str.lower on the extensions of the model
Lower(ext) ==
    CASE ext = ".CR2" -> ".cr2"
      [] ext = ".DNG" -> ".dng"
      [] OTHER -> ext

\* `sub in name` on the directory names of the model
NameContains(name, sub) ==
    \/ name = sub
    \/ name = XK1 /\ sub = K1

\* datetime.strptime(_dir, DATE_FILE_FORMAT) succeeds
IsDateName(name) == name \in {K1, K2}

DigitStr(n) ==
    CASE n = 0 -> "0" [] n = 1 -> "1" [] n = 2 -> "2" [] n = 3 -> "3"
      [] n = 4 -> "4" [] n = 5 -> "5" [] n = 6 -> "6" [] n = 7 -> "7"
      [] n = 8 -> "8" [] n = 9 -> "9"

Pad2(n) == DigitStr((n \div 10) % 10) \o DigitStr(n % 10)

Pad4(n) == Pad2(n \div 100) \o Pad2(n % 100)

\* imageDate.strftime(DATE_FILE_FORMAT), "%m-%d-%Y"
FormatDate(dt) == Pad2(dt.month) \o "-" \o Pad2(dt.day) \o "-" \o Pad4(dt.year)

NoTag == ""
T1 == "2020:01:01 10:00:00"
T2 == "2020:01:02 09:30:00"
BadTag == "2020-01-01"

\* datetime.strptime(imageStrDate, EXIF_DATE_TOKEN_FORMAT)
ParseExif(s) ==
    CASE s = T1 -> [ok |-> TRUE, year |-> 2020, month |-> 1, day |-> 1]
      [] s = T2 -> [ok |-> TRUE, year |-> 2020, month |-> 1, day |-> 2]
      [] OTHER  -> [ok |-> FALSE, year |-> 0, month |-> 0, day |-> 0]

----------------------------------------------------------------------------
(* Paths and the file system. *)

RootDir == <<>>

Join(d, name) == Append(d, name)

Basename(p) == p[Len(p)]

Dirname(p) == SubSeq(p, 1, Len(p) - 1)

Parents(p) == {SubSeq(p, 1, i) : i \in 1..(Len(p) - 1)}

IsDir(ds, p) == p = RootDir \/ p \in ds

\* os.path.exists
Exists(fsys, ds, p) == IsDir(ds, p) \/ p \in DOMAIN fsys

FilesIn(fsys, d) == {p \in DOMAIN fsys : Dirname(p) = d}

SubdirsOf(ds, d) == {s \in ds : Dirname(s) = d}

Perms(S) ==
    {s \in [1..Cardinality(S) -> S] :
        \A i, j \in 1..Cardinality(S) : i # j => s[i] # s[j]}

----------------------------------------------------------------------------
(* The scan, lines 54-84. *)

\* the branches of lines 68-77
Classify(ext) ==
    CASE Lower(ext) \in JPG_NAME     -> "jpg"
      [] Lower(ext) \in RAW_NAME     -> "raw"
      [] Lower(ext) \in SIDECAR_NAME -> "sidecar"
      [] OTHER                       -> "unrecognized"

PathContains(dir, sub) == \E i \in 1..Len(dir) : NameContains(dir[i], sub)

\* the filter left out: every directory is scanned
SkipDirectoryNever(root, existing) == FALSE

\* line 62, for a directory other than cameraRollDirectory
SkipDirectory(root, existing) ==
    ~ \E substring \in existing : PathContains(root, substring)

\* lines 56-61: the sub-directories whose name parses as a date
DateSubdirs(ds, root) ==
    {Basename(s) : s \in {t \in SubdirsOf(ds, root) : IsDateName(Basename(t))}}

\* get_date_taken, lines 140-148: tags["Image DateTime"].values
GetDateTaken(file) ==
    IF file.meta = NoTag
    THEN [raised |-> "KeyError@146", value |-> NoTag]
    ELSE [raised |-> "none", value |-> file.meta]

HasKey(group, key) == \E i \in 1..Len(group) : group[i].key = key

\* lines 82-84: workingDict[key].append(path), a dict in insertion order
AddToGroup(group, key, path) ==
    IF HasKey(group, key)
    THEN [i \in 1..Len(group) |->
            IF group[i].key = key
            THEN [group[i] EXCEPT !.files = Append(@, path)]
            ELSE group[i]]
    ELSE Append(group, [key |-> key, files |-> <<path>>])

\* line 73: sidecars[filename] = path
PutSidecar(sc, stem, path) ==
    [k \in DOMAIN sc \cup {stem} |-> IF k = stem THEN path ELSE sc[k]]

LogLine(level, msg, src, dest) ==
    [level |-> level, msg |-> msg, src |-> src, dest |-> dest]

\* logger.error: level ERROR passes both log levels (lines 181-184)
LogError(lg, msg, src, dest) == Append(lg, LogLine("error", msg, src, dest))

\* logger.debug: emitted only at level DEBUG, which is set by the -d flag
LogDebug(lg, dry, msg, src, dest) ==
    IF dry THEN Append(lg, LogLine("debug", msg, src, dest)) ELSE lg

\* the body of the loop of line 66 for one file
ScanFile(st, fsys, path) ==
    LET se == Splitext(Basename(path))
        role == Classify(se.ext)
        seen == [st EXCEPT !.visited = @ \cup {path}]
        taken == GetDateTaken(fsys[path])
        parsed == ParseExif(taken.value)
        key == FormatDate(parsed)
    IN  CASE role = "sidecar" ->
               [seen EXCEPT !.sidecars = PutSidecar(@, se.stem, path)]
          [] role = "unrecognized" ->
               [seen EXCEPT !.log = LogError(@, "unrecognized", path, <<>>)]
          [] OTHER ->
               IF taken.raised # "none"
               THEN [seen EXCEPT !.outcome = taken.raised]
               ELSE IF ~parsed.ok
               THEN [seen EXCEPT !.outcome = "ValueError@80"]
               ELSE IF role = "raw"
               THEN [seen EXCEPT !.raw = AddToGroup(@, key, path)]
               ELSE [seen EXCEPT !.jpg = AddToGroup(@, key, path)]

RECURSIVE ScanFiles(_, _, _)
ScanFiles(st, fsys, files) ==
    IF files = <<>> \/ st.outcome # "none"
    THEN st
    ELSE ScanFiles(ScanFile(st, fsys, Head(files)), fsys, Tail(files))

\* one iteration of the loop of line 54: os.walk yields the next directory
WalkDir ==
    /\ pc = "scan"
    /\ stack # <<>>
    /\ LET root == Head(stack)
           existing == IF root = RootDir
                       THEN existingDirectories \cup DateSubdirs(dirs, root)
                       ELSE existingDirectories
           skip == root # RootDir /\ SkipDirectory(root, existing)
           st0 == [raw |-> unsortedRaw, jpg |-> unsortedJpg,
                   sidecars |-> sidecars, log |-> log, visited |-> visited,
                   outcome |-> "none"]
       IN  \E files \in Perms(FilesIn(fs, root)),
              subdirs \in Perms(SubdirsOf(dirs, root)) :
             LET st == IF skip THEN st0 ELSE ScanFiles(st0, fs, files)
                 rest == subdirs \o Tail(stack)
             IN  /\ existingDirectories' = existing
                 /\ unsortedRaw' = st.raw
                 /\ unsortedJpg' = st.jpg
                 /\ sidecars' = st.sidecars
                 /\ log' = st.log
                 /\ visited' = st.visited
                 /\ outcome' = st.outcome
                 /\ stack' = rest
                 /\ pc' = IF st.outcome # "none" THEN "crashed"
                          ELSE IF rest = <<>> THEN "raw_dir"
                          ELSE "scan"
    /\ UNCHANGED <<fs, dirs, dryRun, run, ki, fi, syscalls, exitMsg, fs0, dirs0>>

----------------------------------------------------------------------------
(* The system calls of the placement passes. *)

\* the guard left out: the call is made in a dry run too
EffectiveAlways(dry) == TRUE

\* `if not dryRun:` of lines 91, 102, 111, 121 and 132
Effective(dry) == ~dry

Call(op, src, dest, ok, file, dirOk, destFree) ==
    [op |-> op, src |-> src, dest |-> dest, ok |-> ok, file |-> file,
     dirOk |-> dirOk, destFree |-> destFree]

\* os.makedirs raises: the path exists, a parent is a file, or the
\* environment refuses (permissions, read-only medium)
MakedirsFails(fsys, ds, path, envOk) ==
    \/ ~envOk
    \/ Exists(fsys, ds, path)
    \/ \E q \in Parents(path) : q \in DOMAIN fsys

\* os.rename raises: the source is gone, the destination's directory is
\* missing or not a directory, the destination is a directory, or the
\* environment refuses.  An existing destination file is replaced.
RenameFails(fsys, ds, src, dest, envOk) ==
    \/ ~envOk
    \/ src \notin DOMAIN fsys
    \/ ~IsDir(ds, Dirname(dest))
    \/ dest \in ds

RenameFile(fsys, src, dest) ==
    [p \in (DOMAIN fsys \ {src}) \cup {dest} |->
        IF p = dest THEN fsys[src] ELSE fsys[p]]

\* lines 89-95 and 119-125: st is [dirs, log, syscalls, failed]
Makedirs(st, dry, fsys, path, envOk) ==
    LET lg == LogDebug(st.log, dry, "mkdir", path, <<>>)
        fails == MakedirsFails(fsys, st.dirs, path, envOk)
        call == Call("makedirs", <<>>, path, ~fails, <<>>, TRUE, TRUE)
    IN  IF ~Effective(dry)
        THEN [st EXCEPT !.log = lg]
        ELSE IF fails
        THEN [st EXCEPT !.log = LogError(lg, "mkdir-failed", path, <<>>),
                        !.syscalls = Append(@, call),
                        !.failed = TRUE]
        ELSE [st EXCEPT !.log = lg,
                        !.syscalls = Append(@, call),
                        !.dirs = @ \cup {path} \cup Parents(path)]

\* the handler only logs: the loop goes on
MakedirsErrorContinue(cont) == cont

\* line 95: sys.exit(...) ends the invocation; cont is the position the
\* loop would go on from
MakedirsErrorPc(cont) == "exit"

\* lines 99-105, 106-114 and 129-135: st is [fs, log, syscalls, outcome];
\* wellFormed tells whether the format string of the error message is
\* (line 114's "... To {)" is not: str.format raises ValueError)
Transfer(st, dry, ds, src, dest, shown, envOk, wellFormed) ==
    LET fails == RenameFails(st.fs, ds, src, dest, envOk)
        call == Call("rename", src, dest, ~fails,
                     IF src \in DOMAIN st.fs THEN st.fs[src].origin ELSE <<>>,
                     IsDir(ds, Dirname(dest)), dest \notin DOMAIN st.fs)
        found == Call("exists", src, dest, TRUE,
                      IF src \in DOMAIN st.fs THEN st.fs[src].origin ELSE <<>>,
                      IsDir(ds, Dirname(dest)), dest \notin DOMAIN st.fs)
        lg == LogDebug(st.log, dry, "mv", src, dest)
    IN  IF dest = src
        THEN st
        ELSE IF Exists(st.fs, ds, dest)
        THEN IF wellFormed
             THEN [st EXCEPT !.log = LogError(@, "exists", shown, dest),
                             !.syscalls = Append(@, found)]
             ELSE [st EXCEPT !.syscalls = Append(@, found),
                             !.outcome = "ValueError@114"]
        ELSE IF ~Effective(dry)
        THEN [st EXCEPT !.log = lg]
        ELSE IF fails
        THEN [st EXCEPT !.log = lg,
                        !.syscalls = Append(@, call),
                        !.outcome = "OSError@rename"]
        ELSE [st EXCEPT !.log = lg,
                        !.syscalls = Append(@, call),
                        !.fs = RenameFile(@, src, dest)]

\* lines 106-107: the sidecar looked up under the raw file's basename
SidecarFor(sc, basename) ==
    IF basename \in DOMAIN sc THEN <<sc[basename]>> ELSE <<>>

----------------------------------------------------------------------------
(* The raw pass, lines 86-114. *)

\* line 88
NeedRawDir(key, existing) == key \notin existing

\* lines 86-95: the next key of unsortedRaw and its directory
RawDir ==
    /\ pc = "raw_dir"
    /\ IF ki > Len(unsortedRaw)
       THEN /\ pc' = "jpg_dir"
            /\ ki' = 1
            /\ UNCHANGED <<dirs, log, syscalls, outcome, exitMsg>>
       ELSE LET key == unsortedRaw[ki].key
                path == Join(RootDir, key)
                st0 == [dirs |-> dirs, log |-> log, syscalls |-> syscalls,
                        failed |-> FALSE]
            IN  \E envOk \in BOOLEAN :
                  LET st == IF NeedRawDir(key, existingDirectories)
                            THEN Makedirs(st0, dryRun, fs, path, envOk)
                            ELSE st0
                  IN  /\ dirs' = st.dirs
                      /\ log' = st.log
                      /\ syscalls' = st.syscalls
                      /\ outcome' = IF st.failed THEN "SystemExit" ELSE outcome
                      /\ exitMsg' = IF st.failed THEN path ELSE exitMsg
                      /\ pc' = IF st.failed THEN MakedirsErrorPc("raw_file")
                               ELSE "raw_file"
                      /\ ki' = ki
    /\ fi' = 1
    /\ UNCHANGED <<fs, dryRun, run, stack, existingDirectories, unsortedRaw,
                   sidecars, unsortedJpg, visited, fs0, dirs0>>

\* lines 97-114: one raw file and its sidecar
RawFile ==
    /\ pc = "raw_file"
    /\ LET entry == unsortedRaw[ki]
           path == Join(RootDir, entry.key)
           file == entry.files[fi]
           basename == Basename(file)
           found == SidecarFor(sidecars, basename)
           st0 == [fs |-> fs, log |-> log, syscalls |-> syscalls,
                   outcome |-> "none"]
       IN  \E rawOk \in BOOLEAN, sidecarOk \in BOOLEAN :
             LET st1 == Transfer(st0, dryRun, dirs, file, Join(path, basename),
                                 file, rawOk, TRUE)
                 st2 == IF st1.outcome = "none" /\ found # <<>>
                        THEN Transfer(st1, dryRun, dirs, found[1],
                                      Join(path, Basename(found[1])),
                                      file, sidecarOk, FALSE)
                        ELSE st1
             IN  /\ fs' = st2.fs
                 /\ log' = st2.log
                 /\ syscalls' = st2.syscalls
                 /\ outcome' = st2.outcome
                 /\ IF st2.outcome # "none"
                    THEN pc' = "crashed" /\ UNCHANGED <<ki, fi>>
                    ELSE IF fi < Len(entry.files)
                    THEN pc' = "raw_file" /\ fi' = fi + 1 /\ ki' = ki
                    ELSE pc' = "raw_dir" /\ fi' = 1 /\ ki' = ki + 1
    /\ UNCHANGED <<dirs, dryRun, run, stack, existingDirectories, unsortedRaw,
                   sidecars, unsortedJpg, exitMsg, visited, fs0, dirs0>>

----------------------------------------------------------------------------
(* The preview pass, lines 116-135. *)

\* line 118
NeedJpgDir(fsys, ds, path) == ~Exists(fsys, ds, path)

\* lines 116-125: the next key of unsortedJpg and its jpg directory; when
\* the keys are exhausted organizeInPlace returns
JpgPass ==
    /\ pc = "jpg_dir"
    /\ IF ki > Len(unsortedJpg)
       THEN /\ pc' = "done"
            /\ UNCHANGED <<dirs, log, syscalls, outcome, exitMsg>>
       ELSE LET key == unsortedJpg[ki].key
                path == Join(Join(RootDir, key), JpgDir)
                st0 == [dirs |-> dirs, log |-> log, syscalls |-> syscalls,
                        failed |-> FALSE]
            IN  \E envOk \in BOOLEAN :
                  LET st == IF NeedJpgDir(fs, dirs, path)
                            THEN Makedirs(st0, dryRun, fs, path, envOk)
                            ELSE st0
                  IN  /\ dirs' = st.dirs
                      /\ log' = st.log
                      /\ syscalls' = st.syscalls
                      /\ outcome' = IF st.failed THEN "SystemExit" ELSE outcome
                      /\ exitMsg' = IF st.failed THEN path ELSE exitMsg
                      /\ pc' = IF st.failed THEN MakedirsErrorPc("jpg_file")
                               ELSE "jpg_file"
    /\ fi' = 1
    /\ UNCHANGED <<fs, dryRun, run, stack, existingDirectories, unsortedRaw,
                   sidecars, unsortedJpg, ki, visited, fs0, dirs0>>

\* lines 127-135: one preview file
JpgFile ==
    /\ pc = "jpg_file"
    /\ LET entry == unsortedJpg[ki]
           path == Join(Join(RootDir, entry.key), JpgDir)
           file == entry.files[fi]
           st0 == [fs |-> fs, log |-> log, syscalls |-> syscalls,
                   outcome |-> "none"]
       IN  \E envOk \in BOOLEAN :
             LET st == Transfer(st0, dryRun, dirs, file,
                                Join(path, Basename(file)), file, envOk, TRUE)
             IN  /\ fs' = st.fs
                 /\ log' = st.log
                 /\ syscalls' = st.syscalls
                 /\ outcome' = st.outcome
                 /\ IF st.outcome # "none"
                    THEN pc' = "crashed" /\ UNCHANGED <<ki, fi>>
                    ELSE IF fi < Len(entry.files)
                    THEN pc' = "jpg_file" /\ fi' = fi + 1 /\ ki' = ki
                    ELSE pc' = "jpg_dir" /\ fi' = 1 /\ ki' = ki + 1
    /\ UNCHANGED <<dirs, dryRun, run, stack, existingDirectories, unsortedRaw,
                   sidecars, unsortedJpg, exitMsg, visited, fs0, dirs0>>

\* the exit status of the process: sys.exit(<str>) and an uncaught
\* exception both end it with 1
ExitStatus(out) == IF out = "none" THEN 0 ELSE 1

----------------------------------------------------------------------------
(* Invocations. *)

\* organize is run again on the tree the previous run has left: the state
\* on entry to organizeInPlace, lines 50-53
Rerun ==
    /\ pc = "done"
    /\ ~dryRun
    /\ run < MaxRuns
    /\ run' = run + 1
    /\ pc' = "scan"
    /\ stack' = <<RootDir>>
    /\ existingDirectories' = {}
    /\ unsortedRaw' = <<>>
    /\ sidecars' = <<>>
    /\ unsortedJpg' = <<>>
    /\ ki' = 1
    /\ fi' = 1
    /\ log' = <<>>
    /\ syscalls' = <<>>
    /\ outcome' = "none"
    /\ exitMsg' = <<>>
    /\ visited' = {}
    /\ fs0' = fs
    /\ dirs0' = dirs
    /\ UNCHANGED <<fs, dirs, dryRun>>

(* The initial trees: at most MaxFiles files. *)

TopDirs == {RootDir, <<K1>>, <<K2>>, <<XK1>>}

\* a raw file, a preview and two sidecars, each with the values its
\* "Image DateTime" tag may have
FileKinds ==
    {[name |-> "A.CR2", meta |-> m] : m \in {T1, T2, NoTag}}
    \cup {[name |-> "A.jpg", meta |-> m] : m \in {T1, T2, BadTag}}
    \cup {[name |-> n, meta |-> NoTag] : n \in {"A.CR2.xmp", "A.xmp"}}

\* any of these in any directory, a file of another kind in the camera
\* roll, and a regular file named jpg in a date directory
FileChoices ==
    {[path |-> Join(d, k.name), meta |-> k.meta] : d \in TopDirs, k \in FileKinds}
    \cup {[path |-> Join(RootDir, "A.txt"), meta |-> NoTag]}
    \cup {[path |-> Join(<<K1>>, JpgDir), meta |-> NoTag]}

RECURSIVE ChoicesUpTo(_)
ChoicesUpTo(n) ==
    IF n = 0 THEN {{}}
    ELSE LET less == ChoicesUpTo(n - 1)
         IN  less \cup {s \cup {c} : s \in less, c \in FileChoices}

TreeDirs(S) == UNION {Parents(c.path) : c \in S}

WellFormedTree(S) ==
    /\ \A c, e \in S : c.path = e.path => c = e
    /\ \A c \in S : c.path \notin TreeDirs(S)

TreeOf(S) ==
    [p \in {c.path : c \in S} |->
        LET c == CHOOSE e \in S : e.path = p
        IN  [origin |-> p, meta |-> c.meta]]

Init ==
    \E S \in ChoicesUpTo(MaxFiles), dry \in BOOLEAN :
        /\ WellFormedTree(S)
        /\ fs = TreeOf(S)
        /\ dirs = TreeDirs(S)
        /\ dryRun = dry
        /\ run = 1
        /\ pc = "scan"
        /\ stack = <<RootDir>>
        /\ existingDirectories = {}
        /\ unsortedRaw = <<>>
        /\ sidecars = <<>>
        /\ unsortedJpg = <<>>
        /\ ki = 1
        /\ fi = 1
        /\ log = <<>>
        /\ syscalls = <<>>
        /\ outcome = "none"
        /\ exitMsg = <<>>
        /\ visited = {}
        /\ fs0 = fs
        /\ dirs0 = dirs

Next == WalkDir \/ RawDir \/ RawFile \/ JpgPass \/ JpgFile \/ Rerun

Spec == Init /\ [][Next]_vars

----------------------------------------------------------------------------
(* Properties. *)

Range(seq) == {seq[i] : i \in DOMAIN seq}

Origins(fsys) == {fsys[p].origin : p \in DOMAIN fsys}

Calls(op) == {i \in DOMAIN syscalls : syscalls[i].op = op}

GroupPaths(group) == UNION {Range(g.files) : g \in Range(group)}

PlanPaths ==
    GroupPaths(unsortedRaw) \cup GroupPaths(unsortedJpg) \cup Range(sidecars)

RoleOf(p) == Classify(Splitext(Basename(p)).ext)

StemOf(p) == Splitext(Basename(p)).stem

Reported(msg, field, path) ==
    \E j \in DOMAIN log :
        log[j].level = "error" /\ log[j].msg = msg /\ log[j][field] = path

ScanCrashed == outcome \in {"KeyError@146", "ValueError@80"}

\* part of C1: every file of the tree the run started from is still there
C1_NoFileReplaced ==
    /\ Origins(fs) = Origins(fs0)
    /\ \A i \in Calls("rename") : syscalls[i].destFree

\* part of C1: the source of a skipped transfer stays where it is
C1_ConflictLeavesSource ==
    \A i \in Calls("exists") :
        syscalls[i].file # <<>> =>
            /\ syscalls[i].src \in DOMAIN fs
            /\ fs[syscalls[i].src].origin = syscalls[i].file

\* part of C1: a skipped transfer is reported
C1_ConflictReported ==
    \A i \in Calls("exists") : Reported("exists", "dest", syscalls[i].dest)

\* C1: a transfer whose destination exists and differs from its source is
\* not executed, an error is reported for it and its source stays where it
\* is; no file that existed before the run is overwritten or replaced.
C1_NeverOverwrites ==
    /\ C1_NoFileReplaced
    /\ C1_ConflictLeavesSource
    /\ C1_ConflictReported

\* C2: a second run of organize, on the tree a completed first run has
\* left, executes no file transfer.
C2_SecondRunTransfersNothing ==
    run > 1 => \A i \in Calls("rename") : ~syscalls[i].ok

\* C3: when organize has returned, a sidecar X.xmp the scan found is in
\* root/k (or its place there is occupied) for every raw file X.<rawExt>
\* the scan grouped under the Date Key k.
C3_SidecarFollowsRaw ==
    (pc = "done" /\ ~dryRun) =>
        \A g \in Range(unsortedRaw) : \A p \in Range(g.files) :
            \A s \in visited :
                (RoleOf(s) = "sidecar" /\ StemOf(s) = StemOf(p)) =>
                    Join(Join(RootDir, g.key), Basename(s)) \in DOMAIN fs

BadMetadata(p) ==
    /\ RoleOf(p) \in {"raw", "jpg"}
    /\ ~ParseExif(fs0[p].meta).ok

\* C4: a raw or preview file whose capture date cannot be read is reported
\* and left out of the Sort Plan, and the scan goes on.
C4_MetadataFailureIsolated ==
    \A p \in visited :
        BadMetadata(p) =>
            /\ ~ScanCrashed
            /\ p \notin PlanPaths
            /\ Reported("metadata", "src", p)

\* C5: a rename that fails is reported for its file and the run goes on.
C5_TransferFailureDoesNotAbort ==
    \A i \in Calls("rename") :
        ~syscalls[i].ok =>
            /\ outcome # "OSError@rename"
            /\ pc # "crashed"

\* C6: a failed directory creation ends the run at once with a non-zero
\* exit status and a message naming the path: it is the last file-system
\* call of the run, and the transfers made before it stay made.
C6_MkdirFailureAborts ==
    \A i \in Calls("makedirs") :
        ~syscalls[i].ok =>
            /\ i = Len(syscalls)
            /\ pc = "exit"
            /\ ExitStatus(outcome) # 0
            /\ exitMsg = syscalls[i].dest
            /\ Reported("mkdir-failed", "src", syscalls[i].dest)
            /\ \A j \in Calls("rename") :
                   syscalls[j].ok =>
                       /\ syscalls[j].dest \in DOMAIN fs
                       /\ fs[syscalls[j].dest].origin = syscalls[j].file

\* the run was ended by a failed makedirs after a transfer had been made
C6_Witness ==
    /\ pc = "exit"
    /\ \E i \in Calls("makedirs") : ~syscalls[i].ok
    /\ \E j \in Calls("rename") : syscalls[j].ok

\* C7: with the dry-run flag organize changes nothing on disk: the
\* directories and the place of every file are as before the run, and no
\* makedirs or rename is issued.
C7_DryRunChangesNothing ==
    dryRun =>
        /\ fs = fs0
        /\ dirs = dirs0
        /\ Calls("makedirs") = {}
        /\ Calls("rename") = {}

\* a dry run has returned after logging a directory creation and a transfer
C7_Witness ==
    /\ dryRun
    /\ pc = "done"
    /\ \E j \in DOMAIN log : log[j].level = "debug" /\ log[j].msg = "mkdir"
    /\ \E j \in DOMAIN log : log[j].level = "debug" /\ log[j].msg = "mv"

Occurrences(group, p) ==
    Cardinality({ij \in UNION {{<<i, j>> : j \in DOMAIN group[i].files} :
                                i \in DOMAIN group} :
                    group[ij[1]].files[ij[2]] = p})

TimesPlanned(p) ==
    Occurrences(unsortedRaw, p) + Occurrences(unsortedJpg, p)
    + Cardinality({k \in DOMAIN sidecars : sidecars[k] = p})
    + Cardinality({j \in DOMAIN log :
                      log[j] = LogLine("error", "unrecognized", p, <<>>)})

\* C8: when the scan completes, every file it visited is in exactly one of
\* the raw grouping, the preview grouping, the sidecar mapping, or was
\* reported as unrecognized.
C8_PlanPartitionsVisited ==
    (pc = "raw_dir" /\ ki = 1) => \A p \in visited : TimesPlanned(p) = 1

\* C9: whenever a rename is issued, the directory of its destination
\* exists.
C9_DirectoryEnsuredBeforeTransfer ==
    \A i \in Calls("rename") : syscalls[i].dirOk

\* the directory lies in the camera roll's whitelist: it is the camera roll
\* or its path contains the name of a date directory of the camera roll
Whitelisted(d, ds) ==
    \/ d = RootDir
    \/ \E s \in SubdirsOf(ds, RootDir) :
           IsDateName(Basename(s)) /\ PathContains(d, Basename(s))

\* C10: a file in a directory outside the whitelist is never classified,
\* never enters the Sort Plan, is never the source of a transfer and stays
\* where it was.
C10_SkippedFilesUntouched ==
    \A p \in DOMAIN fs0 :
        ~Whitelisted(Dirname(p), dirs0) =>
            /\ p \notin visited
            /\ p \notin PlanPaths
            /\ \A i \in DOMAIN syscalls : syscalls[i].src # p
            /\ p \in DOMAIN fs
            /\ fs[p] = fs0[p]

\* a run that moved a file has returned and left a file outside the
\* whitelist alone
C10_Witness ==
    /\ pc = "done"
    /\ ~dryRun
    /\ \E p \in DOMAIN fs0 : ~Whitelisted(Dirname(p), dirs0)
    /\ \E j \in Calls("rename") : syscalls[j].ok

====
